---------------------------- MODULE Spec2Model ----------------------------
(***************************************************************************)
(* A model of centralTerminal.js (v3.1): the virtual file system           *)
(* (VirtualOS), the command dispatcher (TerminalLib.runCommand) and the    *)
(* addon session manager (AddonExecutor).                                  *)
(*                                                                         *)
(* JavaScript strings are TLA+ strings; TLC evaluates Len, SubSeq and \o   *)
(* on them, so split/join/trim/parseInt are computed character by          *)
(* character as the engine computes them.  JavaScript objects live in a    *)
(* heap indexed by small integers; a reference is a tagged record.         *)
(***************************************************************************)
EXTENDS Integers, Sequences, FiniteSets, TLC

(***************************************************************************)
(* Bounds of the model.                                                    *)
(***************************************************************************)
\* number of heap slots for VFile / VDirectory objects (the initial layout uses six)
MaxNodes == 7
\* longest command history the dispatcher is driven to
MaxHist == 3

(***************************************************************************)
(* JavaScript strings.                                                     *)
(***************************************************************************)
CharAt(s, i) == SubSeq(s, i, i)

StartsWith(s, c) == Len(s) >= 1 /\ CharAt(s, 1) = c

RECURSIVE SplitAcc(_, _, _, _)
SplitAcc(s, i, cur, acc) ==
    IF i > Len(s) THEN Append(acc, cur)
    ELSE IF CharAt(s, i) = "/" THEN SplitAcc(s, i + 1, "", Append(acc, cur))
    ELSE SplitAcc(s, i + 1, cur \o CharAt(s, i), acc)

\* String.prototype.split('/')
Split(s) == SplitAcc(s, 1, "", <<>>)

RECURSIVE Join(_)
\* Array.prototype.join('/')
Join(parts) ==
    IF Len(parts) = 0 THEN ""
    ELSE IF Len(parts) = 1 THEN parts[1]
    ELSE parts[1] \o "/" \o Join(Tail(parts))

\* parts.pop(): the array without its last element
Front(parts) == SubSeq(parts, 1, Len(parts) - 1)
Last(parts) == parts[Len(parts)]

\* x || d for strings: the empty string is falsy
OrElse(s, d) == IF s = "" THEN d ELSE s

RECURSIVE NonEmpty(_)
\* .filter(p => p.length > 0)
NonEmpty(parts) ==
    IF Len(parts) = 0 THEN <<>>
    ELSE IF Head(parts) = "" THEN NonEmpty(Tail(parts))
    ELSE <<Head(parts)>> \o NonEmpty(Tail(parts))

IsSpace(c) == c = " "

RECURSIVE TrimLeft(_)
TrimLeft(s) == IF Len(s) > 0 /\ IsSpace(CharAt(s, 1)) THEN TrimLeft(Tail(s)) ELSE s

RECURSIVE TrimRight(_)
TrimRight(s) ==
    IF Len(s) > 0 /\ IsSpace(CharAt(s, Len(s))) THEN TrimRight(SubSeq(s, 1, Len(s) - 1)) ELSE s

\* String.prototype.trim()
Trim(s) == TrimRight(TrimLeft(s))

UpperChars == "ABCDEFGHIJKLMNOPQRSTUVWXYZ"
LowerChars == "abcdefghijklmnopqrstuvwxyz"

LowerChar(c) ==
    IF \E i \in 1..26 : CharAt(UpperChars, i) = c
    THEN CharAt(LowerChars, CHOOSE i \in 1..26 : CharAt(UpperChars, i) = c)
    ELSE c

RECURSIVE ToLowerCase(_)
\* String.prototype.toLowerCase()
ToLowerCase(s) == IF s = "" THEN "" ELSE LowerChar(CharAt(s, 1)) \o ToLowerCase(Tail(s))

Digits == "0123456789"
IsDigit(c) == \E i \in 1..10 : CharAt(Digits, i) = c
DigitVal(c) == (CHOOSE i \in 1..10 : CharAt(Digits, i) = c) - 1

RECURSIVE DigitRun(_, _, _)
\* value of the longest run of digits of s that starts at position i, on top of acc
DigitRun(s, i, acc) ==
    IF i <= Len(s) /\ IsDigit(CharAt(s, i)) THEN DigitRun(s, i + 1, acc * 10 + DigitVal(CharAt(s, i)))
    ELSE acc

NaN == [nan |-> TRUE, n |-> 0]
Num(k) == [nan |-> FALSE, n |-> k]

\* parseInt(s, 10): leading white space, an optional sign, then at least one digit
ParseInt(s) ==
    LET t == TrimLeft(s)
        neg == StartsWith(t, "-")
        u == IF StartsWith(t, "-") \/ StartsWith(t, "+") THEN Tail(t) ELSE t
    IN  IF Len(u) >= 1 /\ IsDigit(CharAt(u, 1))
        THEN Num(IF neg THEN 0 - DigitRun(u, 1, 0) ELSE DigitRun(u, 1, 0))
        ELSE NaN

RECURSIVE AllDigits(_)
AllDigits(s) == s = "" \/ (IsDigit(CharAt(s, 1)) /\ AllDigits(Tail(s)))

\* a property key that the engine treats as an integer index (canonical decimal form)
IsArrayIndex(k) == k # "" /\ AllDigits(k) /\ (Len(k) = 1 \/ CharAt(k, 1) # "0")

(***************************************************************************)
(* JavaScript values: undefined, null, references to heap nodes, addon     *)
(* objects and the members every plain object inherits.                    *)
(***************************************************************************)
Undefined == [t |-> "undefined", v |-> 0]
Null == [t |-> "null", v |-> 0]
NodeRef(i) == [t |-> "node", v |-> i]
AddonRef(i) == [t |-> "addon", v |-> i]
\* builtin 1 is the function Object, builtin 2 is Object.prototype,
\* builtin 2 + i is the i-th inherited method
Builtin(i) == [t |-> "builtin", v |-> i]

Truthy(val) == val.t \notin {"undefined", "null"}

ProtoMethodSeq ==
    <<"hasOwnProperty", "isPrototypeOf", "propertyIsEnumerable", "toLocaleString",
      "toString", "valueOf", "__defineGetter__", "__defineSetter__",
      "__lookupGetter__", "__lookupSetter__">>

ProtoMethods == {ProtoMethodSeq[i] : i \in 1 .. Len(ProtoMethodSeq)}

\* obj[key] for a key that is not an own property of a plain object ({})
ProtoGet(key) ==
    IF key = "constructor" THEN Builtin(1)
    ELSE IF key = "__proto__" THEN Builtin(2)
    ELSE IF key \in ProtoMethods
    THEN Builtin(2 + CHOOSE i \in 1 .. Len(ProtoMethodSeq) : ProtoMethodSeq[i] = key)
    ELSE Undefined

\* the name property of an inherited member, as a template literal renders it
BuiltinName(i) ==
    IF i = 1 THEN "Object" ELSE IF i = 2 THEN "undefined" ELSE ProtoMethodSeq[i - 2]


(***************************************************************************)
(* The heap of VFile / VDirectory objects.  Slot 0 is the root directory.  *)
(* children is the own-property list of node.children in the order in      *)
(* which the engine enumerates it.                                         *)
(***************************************************************************)
NodeIds == 0 .. (MaxNodes - 1)
RootId == 0

FreeNode == [kind |-> "free", name |-> "", content |-> "", type |-> "", children |-> <<>>]

\* new VFile(name, content, type)
VFile(name, content, type) ==
    [kind |-> "file", name |-> name, content |-> content, type |-> type, children |-> <<>>]

\* new VDirectory(name)
VDirectory(name) ==
    [kind |-> "dir", name |-> name, content |-> "", type |-> "", children |-> <<>>]

\* val instanceof VDirectory, val instanceof VFile
IsVDirectory(heap, val) == val.t = "node" /\ heap[val.v].kind = "dir"
IsVFile(heap, val) == val.t = "node" /\ heap[val.v].kind = "file"

HasOwn(children, key) == \E i \in 1 .. Len(children) : children[i].key = key

\* children[key] on the plain object: own property first, then the prototype chain
ChildrenGet(children, key) ==
    IF HasOwn(children, key)
    THEN NodeRef(children[CHOOSE i \in 1 .. Len(children) : children[i].key = key].id)
    ELSE ProtoGet(key)

\* VDirectory.getChild(name)
getChild(heap, d, name) == ChildrenGet(heap[d].children, name)

\* position at which the engine enumerates a new own property: integer keys
\* first in ascending order, then string keys in insertion order
InsertPos(children, key) ==
    IF IsArrayIndex(key)
    THEN LET before == {i \in 1 .. Len(children) :
                           /\ IsArrayIndex(children[i].key)
                           /\ DigitRun(children[i].key, 1, 0) < DigitRun(key, 1, 0)}
         IN  Cardinality(before) + 1
    ELSE Len(children) + 1

\* children[key] = node: an own property keeps its place, a new one is enumerated
\* at InsertPos
ChildrenPut(children, key, id) ==
    IF HasOwn(children, key)
    THEN [i \in 1 .. Len(children) |->
             IF children[i].key = key THEN [key |-> key, id |-> id] ELSE children[i]]
    ELSE LET pos == InsertPos(children, key)
         IN  SubSeq(children, 1, pos - 1) \o <<[key |-> key, id |-> id]>>
                 \o SubSeq(children, pos, Len(children))

RECURSIVE ChildrenDelete(_, _)
\* delete children[key]
ChildrenDelete(children, key) ==
    IF Len(children) = 0 THEN <<>>
    ELSE IF Head(children).key = key THEN Tail(children)
    ELSE <<Head(children)>> \o ChildrenDelete(Tail(children), key)

HasFree(heap) == \E i \in NodeIds : heap[i].kind = "free"
\* the slot a `new` takes
Alloc(heap) == CHOOSE i \in NodeIds : heap[i].kind = "free" /\ \A j \in NodeIds : j < i => heap[j].kind # "free"

(***************************************************************************)
(* VirtualOS                                                               *)
(***************************************************************************)
RECURSIVE findParent(_, _, _, _)
\* the closure findParent(dir, target) of _getParent, resumed at child number i of dir
findParent(heap, dir, i, target) ==
    IF i > Len(heap[dir].children) THEN Null
    ELSE LET child == heap[dir].children[i].id
         IN  IF NodeRef(child) = target THEN NodeRef(dir)
             ELSE IF heap[child].kind = "dir"
                  THEN LET found == findParent(heap, child, 1, target)
                       IN  IF Truthy(found) THEN found ELSE findParent(heap, dir, i + 1, target)
                  ELSE findParent(heap, dir, i + 1, target)

\* _getParent searching only the children of the root, not their descendants
getParentShallow(heap, node) ==
    IF node = NodeRef(RootId) THEN Null
    ELSE IF \E i \in 1 .. Len(heap[RootId].children) : NodeRef(heap[RootId].children[i].id) = node
    THEN NodeRef(RootId)
    ELSE Null

\* VirtualOS._getParent(node)
getParent(heap, node) ==
    IF node = NodeRef(RootId) THEN Null ELSE findParent(heap, RootId, 1, node)

RECURSIVE resolveWalk(_, _, _)
\* the for loop of _resolvePath over the remaining parts
resolveWalk(heap, parts, current) ==
    IF Len(parts) = 0 THEN current
    ELSE LET part == Head(parts)
         IN  IF part = ".."
             THEN LET up == getParent(heap, current)
                  IN  resolveWalk(heap, Tail(parts), IF Truthy(up) THEN up ELSE current)
             ELSE IF part # "."
             THEN IF IsVDirectory(heap, current) /\ Truthy(getChild(heap, current.v, part))
                  THEN resolveWalk(heap, Tail(parts), getChild(heap, current.v, part))
                  ELSE Null
             ELSE resolveWalk(heap, Tail(parts), current)

\* VirtualOS._resolvePath(path)
resolvePath(heap, cwd, path) ==
    IF path = "/" THEN NodeRef(RootId)
    ELSE resolveWalk(heap, NonEmpty(Split(path)),
                     IF StartsWith(path, "/") THEN NodeRef(RootId) ELSE NodeRef(cwd))

\* current.name
NameOf(heap, current) ==
    IF current.t = "node" THEN heap[current.v].name ELSE BuiltinName(current.v)

RECURSIVE fullPathLoop(_, _, _)
\* the while loop of _getFullPath
fullPathLoop(heap, current, path) ==
    IF Truthy(current) /\ current # NodeRef(RootId)
    THEN fullPathLoop(heap, getParent(heap, current), "/" \o NameOf(heap, current) \o path)
    ELSE path

\* VirtualOS._getFullPath(directory)
getFullPath(heap, directory) ==
    IF directory = NodeRef(RootId) THEN "/" ELSE OrElse(fullPathLoop(heap, directory, ""), "/")

\* the outcome of a call that changes the tree: the new heap, the returned
\* boolean, the node created or removed (-1 if none); oom marks a creation
\* the bounded heap cannot hold
Outcome(heap, ret, node, oom) == [heap |-> heap, ret |-> ret, node |-> node, oom |-> oom]

\* directory.children[name] = node, for a freshly constructed node
Insert(heap, d, name, node) ==
    IF ~HasFree(heap) THEN Outcome(heap, FALSE, -1, TRUE)
    ELSE LET id == Alloc(heap)
         IN  Outcome([heap EXCEPT ![id] = node,
                                  ![d].children = ChildrenPut(@, name, id)],
                     TRUE, id, FALSE)

\* VirtualOS.createFile(path, content, type)
createFile(heap, cwd, path, content, type) ==
    LET parts == Split(path)
        filename == Last(parts)
        dirPath == OrElse(Join(Front(parts)), "/")
        directory == resolvePath(heap, cwd, dirPath)
    IN  IF IsVDirectory(heap, directory) /\ ~Truthy(getChild(heap, directory.v, filename))
        THEN Insert(heap, directory.v, filename, VFile(filename, content, type))
        ELSE Outcome(heap, FALSE, -1, FALSE)

\* VirtualOS.deleteFile(path)
deleteFile(heap, cwd, path) ==
    LET parts == Split(path)
        filename == Last(parts)
        dirPath == OrElse(Join(Front(parts)), "/")
        directory == resolvePath(heap, cwd, dirPath)
    IN  IF IsVDirectory(heap, directory) /\ IsVFile(heap, getChild(heap, directory.v, filename))
        THEN LET id == getChild(heap, directory.v, filename).v
             IN  Outcome([heap EXCEPT ![directory.v].children = ChildrenDelete(@, filename),
                                      ![id] = FreeNode],
                         TRUE, id, FALSE)
        ELSE Outcome(heap, FALSE, -1, FALSE)

\* createDirectory without the test for an existing child of that name
createDirectoryOverwriting(heap, cwd, path) ==
    LET parts == Split(path)
        dirname == OrElse(Last(parts), path)
        parentPath == OrElse(Join(Front(parts)), "/")
        parentDir == resolvePath(heap, cwd, parentPath)
    IN  IF IsVDirectory(heap, parentDir)
        THEN Insert(heap, parentDir.v, dirname, VDirectory(dirname))
        ELSE Outcome(heap, FALSE, -1, FALSE)

\* VirtualOS.createDirectory(path)
createDirectory(heap, cwd, path) ==
    LET parts == Split(path)
        dirname == OrElse(Last(parts), path)
        parentPath == OrElse(Join(Front(parts)), "/")
        parentDir == resolvePath(heap, cwd, parentPath)
    IN  IF IsVDirectory(heap, parentDir) /\ ~Truthy(getChild(heap, parentDir.v, dirname))
        THEN Insert(heap, parentDir.v, dirname, VDirectory(dirname))
        ELSE Outcome(heap, FALSE, -1, FALSE)

\* VirtualOS.listFiles(path)
listFiles(heap, cwd, path) ==
    LET directory == resolvePath(heap, cwd, path)
    IN  IF IsVDirectory(heap, directory)
        THEN [i \in 1 .. Len(heap[directory.v].children) |->
                 LET e == heap[directory.v].children[i]
                 IN  IF heap[e.id].kind = "dir" THEN e.key \o "/" ELSE e.key]
        ELSE <<>>

\* changeDir accepting any node, a file included, as the new cwd
changeDirToAnyNode(heap, cwd, path) ==
    LET newDir == resolvePath(heap, cwd, path)
    IN  IF newDir.t = "node" THEN [cwd |-> newDir.v, ret |-> TRUE]
        ELSE [cwd |-> cwd, ret |-> FALSE]

\* VirtualOS.changeDir(path): the new cwd and the returned boolean
changeDir(heap, cwd, path) ==
    LET newDir == resolvePath(heap, cwd, path)
    IN  IF IsVDirectory(heap, newDir) THEN [cwd |-> newDir.v, ret |-> TRUE]
        ELSE [cwd |-> cwd, ret |-> FALSE]

\* new VirtualOS(): the root directory, then _initializeFileSystem()
EmptyHeap == [i \in NodeIds |-> IF i = RootId THEN VDirectory("/") ELSE FreeNode]

initializeFileSystem ==
    LET h1 == createDirectory(EmptyHeap, RootId, "/C").heap
        h2 == createDirectory(h1, RootId, "/C/Users").heap
        h3 == createDirectory(h2, RootId, "/C/Program Files").heap
        h4 == createDirectory(h3, RootId, "/D").heap
    IN  createFile(h4, RootId, "/readme.txt", "Welcome to the terminal!", "text").heap


(***************************************************************************)
(* The state one call works on: the fields of the VirtualOS, TerminalLib   *)
(* and AddonExecutor objects, the lines printed and hooks called so far,   *)
(* the exception that ended the call, and which lines reached the history  *)
(* step (executed) and which command handlers ran (handled).  oom and over *)
(* mark a call that the bounded heap or the bounded history cannot hold.   *)
(***************************************************************************)
\* the Addon objects a page constructs: new Addon(name)
AddonIds == {1, 2}
AddonName(a) == IF a = 1 THEN "Snake" ELSE "edit"

\* Terminal.print(text)
print(ctx, text) == [ctx EXCEPT !.out = Append(@, text)]

\* a TypeError leaves the call at this point
throw(ctx) == [ctx EXCEPT !.thrown = "TypeError"]

HookCall(hook, a, input) == [hook |-> hook, addon |-> a, input |-> input]

\* this.addons[key]: own property first, then the prototype chain of {}
AddonsGet(addons, key) ==
    IF \E e \in addons : e.key = key
    THEN AddonRef((CHOOSE e \in addons : e.key = key).id)
    ELSE ProtoGet(key)

\* AddonExecutor.registerAddon(addon)
registerAddon(addons, key, a) == {e \in addons : e.key # key} \cup {[key |-> key, id |-> a]}

\* addon.onStart(term, vOS); a value that is not an Addon has no such method
onStart(ctx, addon) ==
    IF addon.t = "addon"
    THEN [ctx EXCEPT !.addonTerm[addon.v] = TRUE,
                     !.running = @ \cup {addon.v},
                     !.hooks = Append(@, HookCall("onStart", addon.v, ""))]
    ELSE throw(ctx)

\* AddonExecutor.startAddon(name, term, vOS)
startAddon(ctx, name) ==
    IF Truthy(ctx.active)
    THEN print(ctx, "An addon is already running. Please 'exit' first.")
    ELSE LET addon == AddonsGet(ctx.addons, ToLowerCase(name))
         IN  IF Truthy(addon)
             THEN onStart([ctx EXCEPT !.active = addon], addon)
             ELSE print(ctx, "Addon not found: " \o name)

\* AddonExecutor.stopAddon(): the executor has no term field, so the
\* report this.term.print(...) raises a TypeError after the reference is cleared
stopAddon(ctx) ==
    IF Truthy(ctx.active)
    THEN IF ctx.active.t = "addon"
         THEN throw([ctx EXCEPT !.hooks = Append(@, HookCall("onStop", ctx.active.v, "")),
                                !.running = @ \ {ctx.active.v},
                                !.active = Null])
         ELSE throw(ctx)
    ELSE ctx

\* Addon.onCommand(input)
onCommand(ctx, a, input) ==
    IF ctx.addonTerm[a]
    THEN print([ctx EXCEPT !.hooks = Append(@, HookCall("onCommand", a, input))],
               "[" \o AddonName(a) \o "]> " \o input)
    ELSE throw([ctx EXCEPT !.hooks = Append(@, HookCall("onCommand", a, input))])

\* handleCommand with its test of activeAddon inverted
handleCommandInverted(ctx, input) ==
    IF ~Truthy(ctx.active)
    THEN IF ctx.active.t = "addon" THEN onCommand(ctx, ctx.active.v, input) ELSE throw(ctx)
    ELSE ctx

\* AddonExecutor.handleCommand(input)
handleCommand(ctx, input) ==
    IF Truthy(ctx.active)
    THEN IF ctx.active.t = "addon" THEN onCommand(ctx, ctx.active.v, input) ELSE throw(ctx)
    ELSE ctx

(***************************************************************************)
(* TerminalLib                                                             *)
(***************************************************************************)
Quote == "\""

\* position of the first double quote of s at or after i, 0 if there is none
RECURSIVE NextQuote(_, _)
NextQuote(s, i) ==
    IF i > Len(s) THEN 0 ELSE IF CharAt(s, i) = Quote THEN i ELSE NextQuote(s, i + 1)

RECURSIVE MatchAcc(_, _, _, _)
\* input.match(/(?:[^\s"]+|"[^"]*")+/g) || [], scanning from position i
\* with the match in progress in cur
MatchAcc(s, i, cur, acc) ==
    LET flush == IF cur = "" THEN acc ELSE Append(acc, cur)
    IN  IF i > Len(s) THEN flush
        ELSE IF IsSpace(CharAt(s, i)) THEN MatchAcc(s, i + 1, "", flush)
        ELSE IF CharAt(s, i) = Quote
             THEN IF NextQuote(s, i + 1) = 0 THEN MatchAcc(s, i + 1, "", flush)
                  ELSE MatchAcc(s, NextQuote(s, i + 1) + 1,
                                cur \o SubSeq(s, i, NextQuote(s, i + 1)), acc)
        ELSE MatchAcc(s, i + 1, cur \o CharAt(s, i), acc)

Tokens(s) == MatchAcc(s, 1, "", <<>>)

RECURSIVE StripQuotes(_)
\* .replace(/"/g, '')
StripQuotes(s) ==
    IF s = "" THEN ""
    ELSE IF CharAt(s, 1) = Quote THEN StripQuotes(Tail(s))
    ELSE CharAt(s, 1) \o StripQuotes(Tail(s))

\* args[0] || d, and args[0] inside a template literal
Arg0(args, d) == IF Len(args) > 0 THEN OrElse(args[1], d) ELSE d
Arg0Text(args) == IF Len(args) > 0 THEN args[1] ELSE "undefined"

RECURSIVE JoinWith(_, _)
\* Array.prototype.join(sep)
JoinWith(parts, sep) ==
    IF Len(parts) = 0 THEN ""
    ELSE IF Len(parts) = 1 THEN parts[1]
    ELSE parts[1] \o sep \o JoinWith(Tail(parts), sep)

RECURSIVE printAll(_, _)
\* lines.forEach(line => this.term.print(line))
printAll(ctx, lines) ==
    IF Len(lines) = 0 THEN ctx ELSE printAll(print(ctx, Head(lines)), Tail(lines))

RECURSIVE SplitLines(_, _, _)
\* content.split('\n')
SplitLines(s, cur, acc) ==
    IF s = "" THEN Append(acc, cur)
    ELSE IF CharAt(s, 1) = "\n" THEN SplitLines(Tail(s), "", Append(acc, cur))
    ELSE SplitLines(Tail(s), cur \o CharAt(s, 1), acc)

RECURSIVE treeLines(_, _, _, _)
\* TerminalLib._printTreeRecursive(directory, prefix), from child number i on:
\* the lines it prints.  The box-drawing glyphs are written in ASCII:
\* "+-- " for the corner, "|-- " for the tee and "|   " for the bar.
treeLines(heap, d, prefix, i) ==
    LET children == heap[d].children
    IN  IF i > Len(children) THEN <<>>
        ELSE LET child == children[i].id
                 isLast == i = Len(children)
                 decorator == IF isLast THEN "+-- " ELSE "|-- "
                 newPrefix == prefix \o (IF isLast THEN "    " ELSE "|   ")
             IN  IF heap[child].kind = "dir"
                 THEN <<prefix \o decorator \o heap[child].name \o "/">>
                          \o treeLines(heap, child, newPrefix, 1)
                          \o treeLines(heap, d, prefix, i + 1)
                 ELSE <<prefix \o decorator \o heap[child].name>>
                          \o treeLines(heap, d, prefix, i + 1)

\* the names under which _registerDefaultCommands files a Command: the
\* fifteen primary names and the alias "time", which stands for "date"
CommandNames ==
    {"pwd", "ls", "cd", "cat", "mkdir", "touch", "rm", "echo", "history", "date",
     "time", "tree", "clear", "help", "run", "exit"}

\* this.commands[cmdName]: own property first, then the prototype chain of {}
CommandsGet(cmdName) ==
    IF cmdName \in CommandNames
    THEN [t |-> "command", v |-> 0, name |-> IF cmdName = "time" THEN "date" ELSE cmdName]
    ELSE [t |-> ProtoGet(cmdName).t, v |-> ProtoGet(cmdName).v, name |-> ""]

\* the text the help command prints
HelpText ==
    "cat            - Display file contents\n" \o
    "cd             - Change directory\n" \o
    "clear          - Clear terminal output\n" \o
    "date           - Displays the current date and time.\n" \o
    "echo           - Print text\n" \o
    "exit           - Exits the current addon.\n" \o
    "help           - List available commands\n" \o
    "history        - Show command history. Use !<number> to rerun.\n" \o
    "ls             - List files in current directory\n" \o
    "mkdir          - Create a directory\n" \o
    "pwd            - Print current working directory\n" \o
    "rm             - Delete a file\n" \o
    "run            - Run a registered addon\n" \o
    "touch          - Create an empty file\n" \o
    "tree           - Display the directory structure as a tree."

\* the heap part of a tree-changing call, taken over into the call state
withTree(ctx, r) == [ctx EXCEPT !.heap = r.heap, !.oom = @ \/ r.oom]

\* the cat handler
cat(ctx, args) ==
    LET file == resolvePath(ctx.heap, ctx.cwd, Arg0(args, ""))
    IN  IF ~IsVFile(ctx.heap, file) THEN print(ctx, "cat: No such file: " \o Arg0Text(args))
        ELSE LET f == ctx.heap[file.v]
             IN  IF f.type = "text" THEN printAll(ctx, SplitLines(f.content, "", <<>>))
                 ELSE IF f.type = "image"
                 THEN print(ctx, "<img src=\"" \o f.content \o "\" alt=\"" \o f.name
                                     \o "\" style=\"max-width: 100%; height: auto;\">")
                 ELSE IF f.type = "audio"
                 THEN print(ctx, "<audio controls src=\"" \o f.content
                                     \o "\">Your browser does not support audio playback.</audio>")
                 ELSE IF f.type = "exe"
                 THEN print(ctx, "[Executable] To run this, type: run " \o f.content)
                 ELSE print(ctx, "Unsupported file type: " \o f.type)

\* command.execute(args) for the Command filed under name
execute(ctx0, name, args) ==
    LET ctx == [ctx0 EXCEPT !.handled = Append(@, name)]
    IN  CASE name = "pwd" -> print(ctx, getFullPath(ctx.heap, NodeRef(ctx.cwd)))
          [] name = "ls" ->
                LET files == listFiles(ctx.heap, ctx.cwd, Arg0(args, "."))
                IN  print(ctx, IF Len(files) > 0 THEN JoinWith(files, "\n") ELSE "Empty directory.")
          [] name = "cd" ->
                IF Arg0(args, "") = "" \/ ~changeDir(ctx.heap, ctx.cwd, args[1]).ret
                THEN print(ctx, "cd: no such file or directory: " \o Arg0(args, ""))
                ELSE [ctx EXCEPT !.cwd = changeDir(ctx.heap, ctx.cwd, args[1]).cwd]
          [] name = "cat" -> cat(ctx, args)
          [] name = "mkdir" ->
                IF Arg0(args, "") = "" THEN print(ctx, "mkdir: cannot create directory: ")
                ELSE LET r == createDirectory(ctx.heap, ctx.cwd, args[1])
                     IN  IF r.ret THEN withTree(ctx, r)
                         ELSE print(withTree(ctx, r), "mkdir: cannot create directory: " \o args[1])
          [] name = "touch" ->
                IF Arg0(args, "") = "" THEN print(ctx, "Usage: touch <filename>")
                ELSE LET r == createFile(ctx.heap, ctx.cwd, args[1], "", "text")
                     IN  IF r.ret THEN withTree(ctx, r)
                         ELSE print(withTree(ctx, r), "touch: cannot create file: " \o args[1])
          [] name = "rm" ->
                IF Arg0(args, "") = "" THEN print(ctx, "Usage: rm <filename>")
                ELSE LET r == deleteFile(ctx.heap, ctx.cwd, args[1])
                     IN  IF r.ret THEN withTree(ctx, r)
                         ELSE print(ctx, "rm: cannot remove '" \o args[1]
                                             \o "': No such file or directory")
          [] name = "echo" -> print(ctx, JoinWith(args, " "))
          [] name = "history" ->
                printAll(ctx, [i \in 1 .. Len(ctx.hist) |-> ToString(i) \o ": " \o ctx.hist[i]])
          [] name = "date" -> print(ctx, "<new Date().toLocaleString()>")
          [] name = "tree" ->
                LET startNode == resolvePath(ctx.heap, ctx.cwd, Arg0(args, "."))
                IN  IF IsVDirectory(ctx.heap, startNode)
                    THEN printAll(print(ctx, getFullPath(ctx.heap, startNode)),
                                  treeLines(ctx.heap, startNode.v, "", 1))
                    ELSE print(ctx, "tree: '" \o Arg0(args, ".") \o "' is not a directory.")
          [] name = "clear" -> [ctx EXCEPT !.out = <<>>]
          [] name = "help" -> print(ctx, HelpText)
          [] name = "run" ->
                IF Arg0(args, "") = "" THEN print(ctx, "Usage: run <addon-name>")
                ELSE startAddon(ctx, args[1])
          [] name = "exit" ->
                IF ~Truthy(ctx.active) THEN print(ctx, "No active addon to exit.")
                ELSE stopAddon(ctx)

\* the history lookup without the "- 1" that makes the index 1-based
HistoryAtZeroBased(hist, k) ==
    IF ~k.nan /\ k.n >= 0 /\ k.n < Len(hist) THEN hist[k.n + 1] ELSE ""

\* the history lookup counting a negative index from the end, as Array.at does
HistoryAtWrapping(hist, k) ==
    IF ~k.nan /\ Len(hist) > 0 /\ k.n - 1 >= 0 - Len(hist) /\ k.n - 1 < Len(hist)
    THEN hist[((k.n - 1 + Len(hist)) % Len(hist)) + 1]
    ELSE ""

\* this.commandHistory[idx] for the number parseInt gave, minus one
HistoryAt(hist, k) ==
    IF ~k.nan /\ k.n - 1 >= 0 /\ k.n - 1 < Len(hist) THEN hist[k.n] ELSE ""

\* line 140 without its comparison with the latest entry
pushHistoryAlways(hist, input) == Append(hist, input)

\* line 140: store the line unless it repeats the latest entry
pushHistory(hist, input) ==
    IF Len(hist) = 0 \/ hist[Len(hist)] # input THEN Append(hist, input) ELSE hist

\* lines 146-152: tokenize, look the command up, run it
lookupAndRun(ctx, input) ==
    LET parts == Tokens(input)
        cmdName == IF Len(parts) = 0 THEN "" ELSE ToLowerCase(StripQuotes(parts[1]))
        args == [i \in 1 .. (Len(parts) - 1) |-> StripQuotes(parts[i + 1])]
        command == CommandsGet(cmdName)
    IN  IF cmdName = "" THEN ctx
        ELSE IF command.t = "command" THEN execute(ctx, command.name, args)
        ELSE IF Truthy(command) THEN throw(ctx)
        ELSE print(ctx, "Command not recognized: " \o cmdName \o ".")

\* lines 140-152: what runCommand does with a line that is not a recall
runLine(ctx0, input) ==
    LET ctx == [ctx0 EXCEPT !.hist = pushHistory(@, input),
                            !.over = @ \/ Len(pushHistory(ctx0.hist, input)) > MaxHist,
                            !.executed = Append(@, input)]
    IN  IF Truthy(ctx.active)
        THEN IF ToLowerCase(input) = "exit" THEN stopAddon(ctx) ELSE handleCommand(ctx, input)
        ELSE lookupAndRun(ctx, input)

\* the nested call this.runCommand(cmd) of a recall
nested(ctx) == [ctx EXCEPT !.depth = @ + 1]

RECURSIVE runCommand(_, _)
\* runCommand storing the recall line itself before it runs the recalled one
runCommandStoringRecall(ctx, raw) ==
    LET input == Trim(raw)
    IN  IF input = "" THEN ctx
        ELSE IF StartsWith(input, "!")
        THEN LET cmd == HistoryAt(ctx.hist, ParseInt(Tail(input)))
             IN  IF cmd # ""
                 THEN runCommand(nested(print([ctx EXCEPT !.hist = pushHistory(@, input)],
                                              "> " \o cmd)), cmd)
                 ELSE print(ctx, "Invalid history index.")
        ELSE runLine(ctx, input)

\* TerminalLib.runCommand(input)
runCommand(ctx, raw) ==
    LET input == Trim(raw)
    IN  IF input = "" THEN ctx
        ELSE IF StartsWith(input, "!")
        THEN LET cmd == HistoryAt(ctx.hist, ParseInt(Tail(input)))
             IN  IF cmd # "" THEN runCommand(nested(print(ctx, "> " \o cmd)), cmd)
                 ELSE print(ctx, "Invalid history index.")
        ELSE runLine(ctx, input)

(***************************************************************************)
(* State.                                                                  *)
(*   heap, cwd        VirtualOS: the node objects and this.cwd             *)
(*   commandHistory   TerminalLib.commandHistory                           *)
(*   addons           own properties of AddonExecutor.addons               *)
(*   activeAddon      AddonExecutor.activeAddon                            *)
(*   addonTerm        per addon object: whether its term field is set      *)
(*   running          addons whose onStart ran and whose onStop did not    *)
(*   hooks, out       hook calls and printed lines of the latest call      *)
(*   handled          command handlers the latest call ran                 *)
(*   executed         lines of the latest call that reached the history    *)
(*                    step of runCommand                                   *)
(*   thrown           the exception the latest call ended with, or "none"  *)
(*   depth            how many nested runCommand calls the latest call made *)
(*   last, pre        the call in progress and the state it started from;  *)
(*                    last.op = "idle" between two calls                    *)
(***************************************************************************)
VARIABLES heap, cwd, commandHistory, addons, activeAddon, addonTerm, running,
          hooks, out, handled, executed, thrown, depth, last, pre

vars == <<heap, cwd, commandHistory, addons, activeAddon, addonTerm, running,
          hooks, out, handled, executed, thrown, depth, last, pre>>

Snapshot == [heap |-> heap, cwd |-> cwd, commandHistory |-> commandHistory,
             activeAddon |-> activeAddon, addons |-> addons]

\* between two calls of the interface: one call runs to completion before the next starts
IdleCall == [op |-> "idle", arg |-> "", ret |-> Undefined, node |-> -1]
NoSnapshot == [heap |-> EmptyHeap, cwd |-> RootId, commandHistory |-> <<>>,
               activeAddon |-> Null, addons |-> {}]
Idle == last.op = "idle"

Init ==
    /\ heap = initializeFileSystem
    /\ cwd = RootId
    /\ commandHistory = <<>>
    /\ addons = {}
    /\ activeAddon = Null
    /\ addonTerm = [a \in AddonIds |-> FALSE]
    /\ running = {}
    /\ hooks = <<>>
    /\ out = <<>>
    /\ handled = <<>>
    /\ executed = <<>>
    /\ thrown = "none"
    /\ depth = 0
    /\ last = IdleCall
    /\ pre = NoSnapshot

(***************************************************************************)
(* Calls of the VirtualOS interface.                                       *)
(***************************************************************************)
\* path arguments
FsPaths ==
    {"/", ".", "..", "/C", "C", "/C/Users", "Users", "C/Users", "/C/", "/D",
     "/readme.txt", "readme.txt", "/readme.txt/..", "/readme.txt/.", "/readme.txt/x",
     "notes.txt", "/C/notes.txt", "Users/notes.txt", "/nope/notes.txt", "/Users",
     "/notes.txt", "constructor", "/constructor", "7"}

\* path arguments of the two create calls
CreatePaths ==
    {"notes.txt", "/C/notes.txt", "Users/notes.txt", "Users", "/C/Users", "/readme.txt",
     "/nope/notes.txt", "/readme.txt/x", "constructor", "/C/"}

\* (content, type) arguments of createFile
FileArgs == {<<"", "text">>}

TermUnchanged == UNCHANGED <<commandHistory, addons, activeAddon, addonTerm, running>>

\* a call that prints nothing, calls no hook and raises nothing
NoLog ==
    /\ hooks' = <<>>
    /\ out' = <<>>
    /\ handled' = <<>>
    /\ executed' = <<>>
    /\ thrown' = "none"
    /\ depth' = 0

FsCall(op, path, r) ==
    /\ Idle
    /\ ~r.oom
    /\ heap' = r.heap
    /\ last' = [op |-> op, arg |-> path, ret |-> r.ret, node |-> r.node]
    /\ pre' = Snapshot
    /\ NoLog
    /\ UNCHANGED cwd
    /\ TermUnchanged

CreateFileCall ==
    \E path \in CreatePaths, a \in FileArgs :
        FsCall("createFile", path, createFile(heap, cwd, path, a[1], a[2]))

CreateDirectoryCall ==
    \E path \in CreatePaths : FsCall("createDirectory", path, createDirectory(heap, cwd, path))

DeleteFileCall ==
    \E path \in FsPaths : FsCall("deleteFile", path, deleteFile(heap, cwd, path))

ChangeDirCall ==
    \E path \in FsPaths :
        LET r == changeDir(heap, cwd, path)
        IN  /\ Idle
            /\ cwd' = r.cwd
            /\ last' = [op |-> "changeDir", arg |-> path, ret |-> r.ret, node |-> -1]
            /\ pre' = Snapshot
            /\ NoLog
            /\ UNCHANGED heap
            /\ TermUnchanged

ResolveCall ==
    \E path \in FsPaths :
        /\ Idle
        /\ last' = [op |-> "resolve", arg |-> path, ret |-> resolvePath(heap, cwd, path), node |-> -1]
        /\ pre' = Snapshot
        /\ NoLog
        /\ UNCHANGED <<heap, cwd>>
        /\ TermUnchanged

(***************************************************************************)
(* Calls of the AddonExecutor and TerminalLib interfaces.                  *)
(***************************************************************************)
\* the state a call starts from
Ctx ==
    [heap |-> heap, cwd |-> cwd, hist |-> commandHistory, addons |-> addons,
     active |-> activeAddon, addonTerm |-> addonTerm, running |-> running,
     hooks |-> <<>>, out |-> <<>>, handled |-> <<>>, executed |-> <<>>,
     thrown |-> "none", depth |-> 0, oom |-> FALSE, over |-> FALSE]

\* the state a call leaves behind
Commit(op, arg, r) ==
    /\ Idle
    /\ ~r.oom
    /\ ~r.over
    /\ heap' = r.heap
    /\ cwd' = r.cwd
    /\ commandHistory' = r.hist
    /\ activeAddon' = r.active
    /\ addonTerm' = r.addonTerm
    /\ running' = r.running
    /\ hooks' = r.hooks
    /\ out' = r.out
    /\ handled' = r.handled
    /\ executed' = r.executed
    /\ thrown' = r.thrown
    /\ depth' = r.depth
    /\ last' = [op |-> op, arg |-> arg, ret |-> Undefined, node |-> -1]
    /\ pre' = Snapshot
    /\ UNCHANGED addons

\* names passed to startAddon
AddonNames == {"Snake", "snake", "EDIT", "nope", "constructor", "__proto__"}

\* lines passed to an active addon directly
AddonInputs == {"go", "exit"}

\* lines typed at the prompt
TermLines ==
    {"", "ls", " echo hi ", "touch notes.txt", "run Snake", "run constructor",
     "exit", "EXIT", "!0", "!1", "!2", "!3", "!x"}

RegisterAddonCall ==
    \E a \in AddonIds :
        /\ Idle
        /\ addons' = registerAddon(addons, ToLowerCase(AddonName(a)), a)
        /\ last' = [op |-> "registerAddon", arg |-> AddonName(a), ret |-> Undefined, node |-> -1]
        /\ pre' = Snapshot
        /\ NoLog
        /\ UNCHANGED <<heap, cwd, commandHistory, activeAddon, addonTerm, running>>

StartAddonCall == \E name \in AddonNames : Commit("startAddon", name, startAddon(Ctx, name))

StopAddonCall == Commit("stopAddon", "", stopAddon(Ctx))

HandleCommandCall == \E input \in AddonInputs : Commit("handleCommand", input, handleCommand(Ctx, input))

Dispatch == \E line \in TermLines : Commit("runCommand", line, runCommand(Ctx, line))

\* the call returns to its caller, which consumes the result
Return ==
    /\ ~Idle
    /\ last' = IdleCall
    /\ pre' = NoSnapshot
    /\ NoLog
    /\ UNCHANGED <<heap, cwd>>
    /\ TermUnchanged

NextAddon ==
    \/ RegisterAddonCall
    \/ StartAddonCall
    \/ StopAddonCall
    \/ HandleCommandCall
    \/ Return

SpecAddon == Init /\ [][NextAddon]_vars

NextTerm ==
    \/ RegisterAddonCall
    \/ Dispatch
    \/ StopAddonCall
    \/ Return

SpecTerm == Init /\ [][NextTerm]_vars

(***************************************************************************)
(* Calls that build and list directories, names made of digits included.   *)
(***************************************************************************)
\* path arguments of the creations and deletions that are listed afterwards
ListedCreatePaths == {"7", "/C/10", "/C/9", "/notes.txt"}

\* path arguments of listFiles
ListedPaths == {"/", "/C", "C", "/readme.txt", "/nope", "/7"}

ListedCreateFileCall ==
    \E path \in ListedCreatePaths, a \in FileArgs :
        FsCall("createFile", path, createFile(heap, cwd, path, a[1], a[2]))

ListedCreateDirectoryCall ==
    \E path \in ListedCreatePaths :
        FsCall("createDirectory", path, createDirectory(heap, cwd, path))

ListedDeleteFileCall ==
    \E path \in ListedCreatePaths \cup {"/readme.txt"} :
        FsCall("deleteFile", path, deleteFile(heap, cwd, path))

ListFilesCall ==
    \E path \in ListedPaths :
        /\ Idle
        /\ last' = [op |-> "listFiles", arg |-> path, ret |-> listFiles(heap, cwd, path), node |-> -1]
        /\ pre' = Snapshot
        /\ NoLog
        /\ UNCHANGED <<heap, cwd>>
        /\ TermUnchanged

NextList ==
    \/ ListedCreateFileCall
    \/ ListedCreateDirectoryCall
    \/ ListedDeleteFileCall
    \/ ListFilesCall
    \/ Return

SpecList == Init /\ [][NextList]_vars

(***************************************************************************)
(* Command lines that move through and change the tree.                    *)
(***************************************************************************)
\* lines typed at the prompt of a shell session
ShellLines ==
    {"cd C", "cd Users", "cd ..", "cd /readme.txt", "cd constructor", "cd",
     "mkdir a", "touch b", "rm /readme.txt", "constructor", "foo bar"}

\* path arguments of changeDir in a shell session
ShellPaths == {"/C/Users", "..", "/readme.txt/..", "/readme.txt/.", "a", "b"}

DispatchShell == \E line \in ShellLines : Commit("runCommand", line, runCommand(Ctx, line))

ShellChangeDirCall ==
    \E path \in ShellPaths :
        LET r == changeDir(heap, cwd, path)
        IN  /\ Idle
            /\ cwd' = r.cwd
            /\ last' = [op |-> "changeDir", arg |-> path, ret |-> r.ret, node |-> -1]
            /\ pre' = Snapshot
            /\ NoLog
            /\ UNCHANGED heap
            /\ TermUnchanged

NextShell ==
    \/ DispatchShell
    \/ ShellChangeDirCall
    \/ Return

SpecShell == Init /\ [][NextShell]_vars

NextFS ==
    \/ CreateFileCall
    \/ CreateDirectoryCall
    \/ DeleteFileCall
    \/ ChangeDirCall
    \/ ResolveCall
    \/ Return

SpecFS == Init /\ [][NextFS]_vars


(***************************************************************************)
(* Properties of the VirtualOS interface.                                  *)
(***************************************************************************)
IsCreate == last.op \in {"createFile", "createDirectory"}

\* the segments of p are real names: none is empty, "." or ".."
\* (the empty string before the leading "/" of an absolute path aside)
RealSegments(p) ==
    LET parts == Split(p)
        segs == IF StartsWith(p, "/") THEN Tail(parts) ELSE parts
    IN  /\ Len(segs) >= 1
        /\ \A i \in 1 .. Len(segs) : segs[i] \notin {"", ".", ".."}

\* the directory that the path rules give as the parent of p: all segments
\* but the last, walked from root when p is absolute and from cwd otherwise
ParentByRules(h, c, p) ==
    resolveWalk(h, NonEmpty(Front(Split(p))),
                IF StartsWith(p, "/") THEN NodeRef(RootId) ELSE NodeRef(c))

FinalSegment(p) == Last(Split(p))

\* C1: if createFile(p) or createDirectory(p) reports success for a path p
\* whose segments are real names, then resolve(p) from the same cwd returns
\* exactly the node that was just created.
C1_ResolveAfterCreate ==
    (IsCreate /\ last.ret = TRUE /\ RealSegments(last.arg))
        => resolvePath(heap, cwd, last.arg) = NodeRef(last.node)

\* C2: if the parent directory of p (by the path rules) already has a child
\* named as p's final segment, createFile(p) and createDirectory(p) report
\* failure and leave the children of every directory unchanged.
C2_CollisionFails ==
    (IsCreate
        /\ IsVDirectory(pre.heap, ParentByRules(pre.heap, pre.cwd, last.arg))
        /\ HasOwn(pre.heap[ParentByRules(pre.heap, pre.cwd, last.arg).v].children,
                  FinalSegment(last.arg)))
        => (last.ret = FALSE /\ heap = pre.heap)

\* C3: deleteFile(p) fails and leaves the tree unchanged when resolve(p) is
\* not-found or a Directory; it removes a node only when resolve(p) is a
\* File, and then exactly that node.
C3_DeleteOnlyResolvedFile ==
    (last.op = "deleteFile")
        => LET target == resolvePath(pre.heap, pre.cwd, last.arg)
           IN  /\ ~IsVFile(pre.heap, target) => (last.ret = FALSE /\ heap = pre.heap)
               /\ last.ret = TRUE => (IsVFile(pre.heap, target) /\ last.node = target.v)

\* some proper prefix of the segments of p leads to a File
FileBeforeEnd(h, c, p) ==
    LET parts == NonEmpty(Split(p))
        start == IF StartsWith(p, "/") THEN NodeRef(RootId) ELSE NodeRef(c)
    IN  \E k \in 0 .. (Len(parts) - 1) : IsVFile(h, resolveWalk(h, SubSeq(parts, 1, k), start))

\* some prefix of the segments of p leads to a directory that has no child
\* named as the next segment, a name
MissingChild(h, c, p) ==
    LET parts == NonEmpty(Split(p))
        start == IF StartsWith(p, "/") THEN NodeRef(RootId) ELSE NodeRef(c)
    IN  \E k \in 0 .. (Len(parts) - 1) :
            LET at == resolveWalk(h, SubSeq(parts, 1, k), start)
            IN  /\ IsVDirectory(h, at)
                /\ parts[k + 1] \notin {".", ".."}
                /\ ~HasOwn(h[at.v].children, parts[k + 1])

\* C8: resolve(p) is not-found whenever the walk stands on a File with a
\* segment still to come (a name, "." or ".."), and as soon as a name
\* segment is not a child of the current directory.
C8_ResolveNotFound ==
    (last.op = "resolve"
        /\ (FileBeforeEnd(pre.heap, pre.cwd, last.arg) \/ MissingChild(pre.heap, pre.cwd, last.arg)))
        => last.ret = Null


(***************************************************************************)
(* Properties of the addon session and of the dispatcher.                  *)
(***************************************************************************)
Registered(reg, name) == \E e \in reg : e.key = ToLowerCase(name)

\* C4: after startAddon(a) succeeds a further startAddon(b) is rejected, the
\* active addon stays a and b's start hook is not called; after stopAddon()
\* the session is Idle, and startAddon(b) for a registered b then makes b
\* active; at most one addon is active in every state.
C4_Exclusivity ==
    /\ (last.op = "startAddon" /\ Truthy(pre.activeAddon))
          => (activeAddon = pre.activeAddon /\ hooks = <<>>)
    /\ (last.op = "stopAddon") => activeAddon = Null
    /\ (last.op = "startAddon" /\ pre.activeAddon = Null /\ Registered(pre.addons, last.arg))
          => (activeAddon = AddonsGet(pre.addons, ToLowerCase(last.arg))
                /\ hooks = <<HookCall("onStart", activeAddon.v, "")>>)
    /\ Cardinality(running) <= 1
    /\ \A a \in running : activeAddon = AddonRef(a)

\* the latest call dispatched a line while an addon was active
DispatchedToAddon == last.op = "runCommand" /\ pre.activeAddon.t = "addon"

\* C5 as stated: while an addon a is active, every dispatched non-empty line
\* other than "exit" (in any case), lines beginning with "!" included, is
\* delivered to a's input hook exactly once with the text that was typed
\* (surrounding blanks aside), and neither a command handler nor the history
\* recall is applied to it.
C5_ForwardedVerbatim ==
    (DispatchedToAddon /\ Trim(last.arg) # "" /\ ToLowerCase(Trim(last.arg)) # "exit")
        => /\ hooks = <<HookCall("onCommand", pre.activeAddon.v, Trim(last.arg))>>
           /\ handled = <<>>
           /\ executed = <<Trim(last.arg)>>

\* C5 as amended: while an addon a is active, every dispatched line whose
\* trimmed text is not empty, is not "exit" (in any case) and does not begin
\* with "!" is delivered to a's input hook exactly once, as its trimmed
\* text, no command handler runs, and a stays active.
C5_ForwardedTrimmed ==
    (DispatchedToAddon /\ Trim(last.arg) # "" /\ ToLowerCase(Trim(last.arg)) # "exit"
        /\ ~StartsWith(Trim(last.arg), "!"))
        => /\ hooks = <<HookCall("onCommand", pre.activeAddon.v, Trim(last.arg))>>
           /\ handled = <<>>
           /\ executed = <<Trim(last.arg)>>
           /\ activeAddon = pre.activeAddon

\* a line naming a built-in command, typed with surrounding blanks, has
\* reached the hook of the active addon
C5_Witness ==
    /\ DispatchedToAddon
    /\ last.arg = " echo hi "
    /\ hooks = <<HookCall("onCommand", 1, "echo hi")>>

\* C6: the command history never holds two identical adjacent entries.
C6_NoAdjacentDuplicates ==
    \A i \in 1 .. (Len(commandHistory) - 1) : commandHistory[i] # commandHistory[i + 1]

\* a line equal to the latest entry was dispatched and not stored again
C6_Witness ==
    /\ last.op = "runCommand"
    /\ Len(pre.commandHistory) >= 1
    /\ Trim(last.arg) = pre.commandHistory[Len(pre.commandHistory)]
    /\ executed = <<Trim(last.arg)>>
    /\ commandHistory = pre.commandHistory

\* the number n of a dispatched line "!n"
RecallNumber == ParseInt(Tail(Trim(last.arg)))

\* the latest call dispatched "!n" with 1 <= n <= length of the history
ValidRecall ==
    /\ last.op = "runCommand"
    /\ StartsWith(Trim(last.arg), "!")
    /\ ~RecallNumber.nan
    /\ 1 <= RecallNumber.n
    /\ RecallNumber.n <= Len(pre.commandHistory)

Recalled == pre.commandHistory[RecallNumber.n]

\* C7 as stated: "!n" with 1 <= n <= length(history) executes the nth stored
\* line exactly once and leaves the history the same sequence as before,
\* whichever entry n designates.
C7_RecallKeepsHistory ==
    ValidRecall => (executed = <<Recalled>> /\ commandHistory = pre.commandHistory)

\* C7 as amended: "!n" with 1 <= n <= length(history) executes the nth stored
\* line exactly once and never stores the line "!n" itself; the history
\* afterwards is the same sequence as before when the nth entry equals the
\* latest entry, and otherwise the history before with the nth entry appended.
C7_RecallAppendsUnlessLatest ==
    ValidRecall =>
        /\ executed = <<Recalled>>
        /\ out # <<>> /\ out[1] = "> " \o Recalled
        /\ commandHistory =
              IF Recalled = pre.commandHistory[Len(pre.commandHistory)]
              THEN pre.commandHistory
              ELSE Append(pre.commandHistory, Recalled)

\* an entry that is not the latest one has been recalled
C7_Witness ==
    /\ ValidRecall
    /\ RecallNumber.n < Len(pre.commandHistory)
    /\ commandHistory = Append(pre.commandHistory, Recalled)

\* C9: stopAddon() in state Active(a), called directly or through the
\* dispatch of "exit", calls a's stop hook exactly once, clears the active
\* reference, writes the return-to-main report and returns normally.
C9_StopReportsAndReturns ==
    ((last.op = "stopAddon" \/ (last.op = "runCommand" /\ ToLowerCase(Trim(last.arg)) = "exit"))
        /\ pre.activeAddon.t = "addon")
        => /\ hooks = <<HookCall("onStop", pre.activeAddon.v, "")>>
           /\ activeAddon = Null
           /\ out = <<"Returned to main terminal.">>
           /\ thrown = "none"

\* C10: startAddon(name) in state Idle with a name that was never
\* registered (compared without regard to case) reports addon-not-found,
\* calls no hook and leaves the session Idle.
C10_UnknownAddonNotFound ==
    (last.op = "startAddon" /\ pre.activeAddon = Null /\ ~Registered(pre.addons, last.arg))
        => /\ out = <<"Addon not found: " \o last.arg>>
           /\ hooks = <<>>
           /\ activeAddon = Null
           /\ thrown = "none"


(***************************************************************************)
(* Properties of paths, listings and the shape of the tree.                *)
(***************************************************************************)
LiveNodes == {n \in NodeIds : heap[n].kind # "free"}

\* the directories that hold node n as a child
Holders(h, n) ==
    {d \in NodeIds : h[d].kind = "dir" /\ \E i \in 1 .. Len(h[d].children) : h[d].children[i].id = n}

RECURSIVE KeyPath(_, _, _)
\* the keys that lead from the root to node n, found in at most fuel steps upwards
KeyPath(h, n, fuel) ==
    IF n = RootId \/ fuel = 0 \/ Holders(h, n) = {} THEN <<>>
    ELSE LET d == CHOOSE x \in Holders(h, n) : TRUE
             key == h[d].children[CHOOSE i \in 1 .. Len(h[d].children) : h[d].children[i].id = n].key
         IN  Append(KeyPath(h, d, fuel - 1), key)

\* the normalized absolute form of p: the segments of cwd's absolute path
\* first when p is relative, one "/" before each segment, no trailing "/"
Normalized(h, c, p) ==
    LET segs == (IF StartsWith(p, "/") THEN <<>> ELSE KeyPath(h, c, MaxNodes))
                    \o NonEmpty(Split(p))
    IN  IF Len(segs) = 0 THEN "/" ELSE "/" \o Join(segs)

\* C11: for every path p made of real segment names that resolve(p) finds,
\* fullPath(resolve(p)) is the normalized absolute form of p; and
\* resolve(fullPath(n)) = n for every node n of the tree; the root renders
\* as "/".
C11_FullPathRoundTrip ==
    /\ \A p \in FsPaths :
          (RealSegments(p) /\ Truthy(resolvePath(heap, cwd, p)))
              => getFullPath(heap, resolvePath(heap, cwd, p)) = Normalized(heap, cwd, p)
    /\ \A n \in LiveNodes :
          resolvePath(heap, cwd, getFullPath(heap, NodeRef(n))) = NodeRef(n)
    /\ getFullPath(heap, NodeRef(RootId)) = "/"

LiveDirs == {n \in LiveNodes : heap[n].kind = "dir"}

\* C12: for every directory d of the tree, resolve("..") with cwd = d is the
\* one directory whose children contain d, and the root itself when d is the
\* root; any number of ".." segments from any cwd resolves to a directory.
\* Stated of the tree every call leaves behind: Return keeps the tree, so
\* the states between two calls show every tree that is reached.
C12_DotDotIsParent ==
    Idle =>
        \A d \in LiveDirs :
            /\ d = RootId => resolvePath(heap, d, "..") = NodeRef(RootId)
            /\ d # RootId =>
                  /\ Cardinality(Holders(heap, d)) = 1
                  /\ \A x \in Holders(heap, d) : resolvePath(heap, d, "..") = NodeRef(x)
            /\ \A p \in {"..", "../..", "../../..", "../../../.."} :
                  IsVDirectory(heap, resolvePath(heap, d, p))

\* resolve("..") was called in /C/Users and returned /C
C12_Witness ==
    /\ last.op = "resolve"
    /\ last.arg = ".."
    /\ getFullPath(pre.heap, NodeRef(pre.cwd)) = "/C/Users"
    /\ IsVDirectory(heap, last.ret)
    /\ getFullPath(heap, last.ret) = "/C"

\* the listing of directory d itself
Listing(h, d) == listFiles(h, d, ".")

\* the entry listFiles renders for node n of heap h
EntryOf(h, n) == IF h[n].kind = "dir" THEN h[n].name \o "/" ELSE h[n].name

RECURSIVE Without(_, _)
\* sequence s with the first occurrence of x removed
Without(s, x) ==
    IF Len(s) = 0 THEN <<>>
    ELSE IF Head(s) = x THEN Tail(s) ELSE <<Head(s)>> \o Without(Tail(s), x)

\* C13: listFiles(p) returns one entry per child of the directory, `name` for
\* a file and `name/` for a directory, in creation order, whatever the names
\* (names made of digits included): a creation appends its entry to the
\* listing of its directory, a deletion removes its entry, and every other
\* listing stays as it was.  On the fresh file system listFiles("/") is
\* C/, D/, readme.txt; for a path that is not a directory it is empty.
C13_ListingInCreationOrder ==
    /\ listFiles(initializeFileSystem, RootId, "/") = <<"C/", "D/", "readme.txt">>
    /\ \A p \in ListedPaths :
          ~IsVDirectory(heap, resolvePath(heap, cwd, p)) => listFiles(heap, cwd, p) = <<>>
    /\ \A d \in LiveDirs : Len(Listing(heap, d)) = Len(heap[d].children)
    /\ (last.op \in {"createFile", "createDirectory"} /\ last.ret = TRUE) =>
          \A d \in LiveDirs \ {last.node} :
              Listing(heap, d) =
                  IF last.node \in Holders(heap, d) \/ d \in Holders(heap, last.node)
                  THEN Append(Listing(pre.heap, d), EntryOf(heap, last.node))
                  ELSE Listing(pre.heap, d)
    /\ (last.op = "deleteFile" /\ last.ret = TRUE) =>
          \A d \in LiveDirs :
              Listing(heap, d) =
                  IF d \in Holders(pre.heap, last.node)
                  THEN Without(Listing(pre.heap, d), EntryOf(pre.heap, last.node))
                  ELSE Listing(pre.heap, d)

\* the key under which directory d holds node n
KeyOf(h, d, n) == h[d].children[CHOOSE i \in 1 .. Len(h[d].children) : h[d].children[i].id = n].key

HasSlash(name) == \E i \in 1 .. Len(name) : CharAt(name, i) = "/"

\* C15: after any calls of createFile, createDirectory and deleteFile, with
\* arbitrary paths (a trailing "/" included), every node other than the root
\* has a name that is not empty, contains no "/", equals the key under which
\* its directory holds it, and is held under one key only, so that no two
\* children of a directory share a name.
C15_NamesWellFormed ==
    \A n \in LiveNodes \ {RootId} :
        /\ heap[n].name # ""
        /\ ~HasSlash(heap[n].name)
        /\ \A d \in Holders(heap, n) :
              /\ KeyOf(heap, d, n) = heap[n].name
              /\ \A i, j \in 1 .. Len(heap[d].children) :
                    heap[d].children[i].key = heap[d].children[j].key => i = j
              /\ \A m \in LiveNodes \ {n} :
                    d \in Holders(heap, m) => heap[m].name # heap[n].name

RECURSIVE Ancestors(_, _, _)
\* the directories met by going from node n to a holder, fuel times at most
Ancestors(h, n, fuel) ==
    IF fuel = 0 \/ Holders(h, n) = {} THEN {}
    ELSE LET d == CHOOSE x \in Holders(h, n) : TRUE
         IN  {d} \cup Ancestors(h, d, fuel - 1)

\* C16: the tree has exactly one root, named "/", which no directory holds;
\* every other node is a child of exactly one directory, under one entry; no
\* node is its own ancestor and every node descends from the root; so the
\* parent lookup returns that one directory, and nothing for the root.
\* Stated of the tree every call leaves behind, as C12 is.
C16_TreeShape ==
    Idle =>
    /\ heap[RootId].kind = "dir"
    /\ heap[RootId].name = "/"
    /\ Holders(heap, RootId) = {}
    /\ getParent(heap, NodeRef(RootId)) = Null
    /\ \A n \in LiveNodes \ {RootId} :
          /\ Cardinality(Holders(heap, n)) = 1
          /\ \A d \in Holders(heap, n) :
                /\ Cardinality({i \in 1 .. Len(heap[d].children) : heap[d].children[i].id = n}) = 1
                /\ getParent(heap, NodeRef(n)) = NodeRef(d)
          /\ n \notin Ancestors(heap, n, MaxNodes)
          /\ RootId \in Ancestors(heap, n, MaxNodes)
    /\ \A n \in NodeIds \ LiveNodes : Holders(heap, n) = {}
    /\ \A d \in LiveDirs : \A i \in 1 .. Len(heap[d].children) : heap[d].children[i].id \in LiveNodes

\* a directory was created two levels below the root: its parent is /C/Users
C16_Witness ==
    /\ last.op = "createDirectory"
    /\ last.ret = TRUE
    /\ last.node \in LiveNodes
    /\ \E d \in Holders(heap, last.node) :
          /\ heap[d].name = "Users"
          /\ getParent(heap, NodeRef(d)) # NodeRef(RootId)
          /\ getParent(heap, NodeRef(last.node)) = NodeRef(d)

\* a dispatched line "cd <path>"
IsCdLine(line) == Len(line) >= 4 /\ SubSeq(line, 1, 3) = "cd "

\* the path argument of a dispatched line "cd <path>"
CdPath(line) == SubSeq(line, 4, Len(line))

\* what changeDirectory(p) has to do from the state the call started in
ChangedTo(p) ==
    LET target == resolvePath(pre.heap, pre.cwd, p)
    IN  IF IsVDirectory(pre.heap, target) THEN cwd = target.v ELSE cwd = pre.cwd

\* C14: in every state reached by dispatched commands (cd, mkdir, touch, rm
\* and the others) the cwd is a directory that descends from the root;
\* changeDirectory(p) sets the cwd to resolve(p) when that is a directory and
\* otherwise reports failure and leaves the cwd as it was; no other command
\* moves the cwd.
C14_CwdIsReachableDirectory ==
    /\ heap[cwd].kind = "dir"
    /\ cwd = RootId \/ RootId \in Ancestors(heap, cwd, MaxNodes)
    /\ last.op = "changeDir" =>
          /\ ChangedTo(last.arg)
          /\ last.ret = IsVDirectory(pre.heap, resolvePath(pre.heap, pre.cwd, last.arg))
    /\ (last.op = "runCommand" /\ IsCdLine(last.arg)) =>
          /\ ChangedTo(CdPath(last.arg))
          /\ out = IF IsVDirectory(pre.heap, resolvePath(pre.heap, pre.cwd, CdPath(last.arg)))
                   THEN <<>>
                   ELSE <<"cd: no such file or directory: " \o CdPath(last.arg)>>
    /\ (last.op = "runCommand" /\ last.arg = "cd") =>
          out = <<"cd: no such file or directory: ">>
    /\ (last.op = "runCommand" /\ ~IsCdLine(last.arg)) => cwd = pre.cwd

\* "cd Users" was dispatched in /C and moved the cwd to /C/Users
C14_Witness ==
    /\ last.op = "runCommand"
    /\ last.arg = "cd Users"
    /\ pre.cwd # RootId
    /\ cwd # pre.cwd
    /\ getFullPath(heap, NodeRef(cwd)) = "/C/Users"

\* the command name runCommand takes from a line: its first token, lower-cased
FirstToken(line) ==
    LET parts == Tokens(Trim(line))
    IN  IF Len(parts) = 0 THEN "" ELSE ToLowerCase(StripQuotes(parts[1]))

\* a line dispatched with no addon active, not a recall, whose first token is
\* not the name of a registered command
UnknownCommand ==
    /\ last.op = "runCommand"
    /\ ~Truthy(pre.activeAddon)
    /\ ~StartsWith(Trim(last.arg), "!")
    /\ FirstToken(last.arg) # ""
    /\ FirstToken(last.arg) \notin CommandNames

\* C17: with no addon active, dispatching a line whose first token,
\* lower-cased, is not a registered command prints the "not recognized"
\* report, runs no handler, raises nothing and leaves the tree, the cwd and
\* the addon state as they were; for every such token, `constructor` included.
C17_UnknownCommandReported ==
    UnknownCommand =>
        /\ out = <<"Command not recognized: " \o FirstToken(last.arg) \o ".">>
        /\ handled = <<>>
        /\ hooks = <<>>
        /\ thrown = "none"
        /\ heap = pre.heap
        /\ cwd = pre.cwd
        /\ activeAddon = pre.activeAddon
        /\ addons = pre.addons

\* the latest call dispatched "!n" where n is not a number, is 0, or is
\* greater than the length of the history
InvalidRecall ==
    /\ last.op = "runCommand"
    /\ StartsWith(Trim(last.arg), "!")
    /\ \/ RecallNumber.nan
       \/ RecallNumber.n = 0
       \/ RecallNumber.n > Len(pre.commandHistory)

\* C18: "!n" with n = 0, n greater than the length of the history, or n not
\* a number prints the invalid-index report and changes nothing else: the
\* history, the tree, the cwd and the addon state stay as they were, and no
\* command handler and no addon hook is called.
C18_InvalidRecallReported ==
    InvalidRecall =>
        /\ out = <<"Invalid history index.">>
        /\ commandHistory = pre.commandHistory
        /\ heap = pre.heap
        /\ cwd = pre.cwd
        /\ activeAddon = pre.activeAddon
        /\ handled = <<>>
        /\ hooks = <<>>
        /\ executed = <<>>
        /\ thrown = "none"

\* "!0" was dispatched with two lines in the history
C18_Witness ==
    /\ InvalidRecall
    /\ Trim(last.arg) = "!0"
    /\ Len(pre.commandHistory) = 2
    /\ out = <<"Invalid history index.">>

\* C19: no entry of the history ever begins with "!", and every dispatch of
\* "!n" ends after at most one nested runCommand call, which runs at most
\* one line.
C19_RecallDepthAtMostOne ==
    /\ \A i \in 1 .. Len(commandHistory) : ~StartsWith(commandHistory[i], "!")
    /\ last.op = "runCommand" =>
          /\ depth <= 1
          /\ Len(executed) <= 1
          /\ depth = (IF ValidRecall THEN 1 ELSE 0)

\* "!2" was dispatched with two lines in the history and ran the second
\* line in one nested call
C19_Witness ==
    /\ ValidRecall
    /\ RecallNumber.n = 2
    /\ Len(pre.commandHistory) = 2
    /\ depth = 1
    /\ executed = <<Recalled>>

\* the latest call dispatched a line with an addon active
DispatchedWhileActive == last.op = "runCommand" /\ Truthy(pre.activeAddon)

\* the line the latest dispatch executed, typed or replayed by "!n", is "exit"
ExecutedExit == Len(executed) = 1 /\ ToLowerCase(executed[1]) = "exit"

\* C20: an addon session lasts until it is stopped and can always be
\* stopped.  A dispatch in state Active(a) changes the active addon only when
\* the line it executes is "exit" in any case, typed or replayed by "!n";
\* "exit" is never passed to the input hook; a dispatch of "exit" always
\* ends with no addon active; and with no addon active "exit" prints the
\* nothing-to-exit report and stays there, while a built-in command such as
\* ls runs its handler.
C20_SessionEndsOnExit ==
    /\ (DispatchedWhileActive /\ activeAddon # pre.activeAddon) => ExecutedExit
    /\ DispatchedWhileActive =>
          \A i \in 1 .. Len(hooks) :
              hooks[i].hook = "onCommand" => ToLowerCase(hooks[i].input) # "exit"
    /\ (DispatchedWhileActive /\ ExecutedExit) => activeAddon = Null
    /\ (last.op = "runCommand" /\ ~Truthy(pre.activeAddon) /\ ExecutedExit) =>
          /\ activeAddon = Null
          /\ out[Len(out)] = "No active addon to exit."
          /\ hooks = <<>>
    /\ (last.op = "runCommand" /\ ~Truthy(pre.activeAddon) /\ executed = <<"ls">>) =>
          handled = <<"ls">>

=============================================================================
